---- MODULE Spec2Model ----
(***************************************************************************)
(* Model of src/analyze_je.py: analyze_data(), a single linear pipeline    *)
(* that loads a journal-entry spreadsheet, cleans it, aggregates it, runs  *)
(* a first-digit (Benford) analysis and writes three charts and a summary. *)
(*                                                                         *)
(* A number is a record [k, m, e, s]:                                      *)
(*   k = "num": the decimal m * 10^e (m has no trailing zero, 0 is m=0,e=0)*)
(*   k = "inf": +/- infinity (sign in m)      k = "nan": missing / NaN     *)
(*   k = "str": a text cell, s is its characters (only before coercion)    *)
(* Text is a sequence of one-character strings so that str(), lstrip() and *)
(* strip() are computed character by character as the code does.           *)
(*                                                                         *)
(* Not carried by the model: the BusinessUnit and EntryDate columns (they  *)
(* are handled exactly like Source and EffectiveDate), the float totals    *)
(* and date ranges of lines 44-50 and the expected Benford frequencies     *)
(* log10(1 + 1/d), none of which any other step reads.                     *)
(***************************************************************************)
EXTENDS Integers, Sequences, FiniteSets, TLC

\* ------------------------------------------------------------------ bounds
\* Largest number of rows of an amount table (InputAmountTables).
MaxAmountRows == 2
\* Largest number of distinct sources of a source table (InputSourceTables).
MaxSources == 12
\* Largest power of ten by which an amount is rescaled (C7).
MaxShift == 16
\* The pie chart keeps this many sources (line 97: len(source_counts) > 10).
TopN == 10

\* ------------------------------------------------------- numbers and text
Num(m, e) == [k |-> "num", m |-> m, e |-> e, s |-> <<>>]
Zero      == Num(0, 0)
NaN       == [k |-> "nan", m |-> 0, e |-> 0, s |-> <<>>]
Inf(sign) == [k |-> "inf", m |-> sign, e |-> 0, s |-> <<>>]
Text(s)   == [k |-> "str", m |-> 0, e |-> 0, s |-> s]

Abs(n) == IF n < 0 THEN -n ELSE n

DigitChars == <<"0", "1", "2", "3", "4", "5", "6", "7", "8", "9">>
IsDigitChar(c) == \E d \in 0..9 : DigitChars[d + 1] = c
CharToDigit(c) == CHOOSE d \in 0..9 : DigitChars[d + 1] = c

RECURSIVE Digits(_)
\* The decimal digits of n >= 0, most significant first.
Digits(n) == IF n < 10 THEN <<n>> ELSE Append(Digits(n \div 10), n % 10)

RECURSIVE Rep(_, _)
Rep(c, n) == IF n <= 0 THEN <<>> ELSE <<c>> \o Rep(c, n - 1)

DigitsToChars(ds) == [i \in 1..Len(ds) |-> DigitChars[ds[i] + 1]]

RECURSIVE Normalize(_, _)
\* m * 10^e with the trailing zeros of m moved into e.
Normalize(m, e) ==
    IF m = 0 THEN Zero
    ELSE IF m % 10 = 0 THEN Normalize(m \div 10, e + 1)
    ELSE Num(m, e)

\* x > 0 and x = 0 on floats; NaN compares false with everything.
IsPositive(v) == v.k \in {"num", "inf"} /\ v.m > 0
IsNegative(v) == v.k \in {"num", "inf"} /\ v.m < 0
IsZero(v)     == v.k = "num" /\ v.m = 0
\* Series.abs()
AbsValue(v) == IF v.k \in {"num", "inf"} THEN [v EXCEPT !.m = Abs(v.m)] ELSE v
\* A whole number, the values an int64 column holds.
IsWhole(v) == v.k = "num" /\ v.e >= 0

\* str(float): Python's shortest repr, scientific when the decimal point
\* falls more than 16 digits right or more than 3 zeros left of the digits.
PyFloatRepr(v) ==
    IF v.k = "nan" THEN <<"n", "a", "n">>
    ELSE IF v.k = "inf" THEN (IF v.m < 0 THEN <<"-">> ELSE <<>>) \o <<"i", "n", "f">>
    ELSE LET sign  == IF v.m < 0 THEN <<"-">> ELSE <<>>
             ds    == DigitsToChars(Digits(Abs(v.m)))
             n     == Len(ds)
             decpt == n + v.e
             exp   == decpt - 1
             body  ==
                 IF v.m = 0 THEN <<"0", ".", "0">>
                 ELSE IF decpt > 16 \/ decpt < -3
                 THEN <<ds[1]>>
                      \o (IF n > 1 THEN <<".">> \o SubSeq(ds, 2, n) ELSE <<>>)
                      \o <<"e", IF exp < 0 THEN "-" ELSE "+">>
                      \o (IF Abs(exp) < 10 THEN <<"0">> ELSE <<>>)
                      \o DigitsToChars(Digits(Abs(exp)))
                 ELSE IF decpt <= 0
                 THEN <<"0", ".">> \o Rep("0", -decpt) \o ds
                 ELSE IF decpt >= n
                 THEN ds \o Rep("0", decpt - n) \o <<".", "0">>
                 ELSE SubSeq(ds, 1, decpt) \o <<".">> \o SubSeq(ds, decpt + 1, n)
         IN  sign \o body

\* str(int)
PyIntRepr(v) ==
    (IF v.m < 0 THEN <<"-">> ELSE <<>>)
    \o DigitsToChars(Digits(Abs(v.m))) \o (IF v.m = 0 THEN <<>> ELSE Rep("0", v.e))

\* Series.astype(str), element-wise, by the dtype of the series.
AsTypeStr(v, dtype) == IF dtype = "int64" THEN PyIntRepr(v) ELSE PyFloatRepr(v)

RECURSIVE LStrip(_, _)
\* str.lstrip(chars): drops every leading character that is in chars.
LStrip(s, chars) ==
    IF s # <<>> /\ s[1] \in chars THEN LStrip(Tail(s), chars) ELSE s

RECURSIVE RStrip(_, _)
RStrip(s, chars) ==
    IF s # <<>> /\ s[Len(s)] \in chars THEN RStrip(SubSeq(s, 1, Len(s) - 1), chars) ELSE s

Whitespace == {" "}
\* str.strip()
Strip(s) == RStrip(LStrip(s, Whitespace), Whitespace)

RECURSIVE DigitsValue(_)
\* The integer a sequence of digit characters spells.
DigitsValue(s) ==
    IF s = <<>> THEN 0
    ELSE 10 * DigitsValue(SubSeq(s, 1, Len(s) - 1)) + CharToDigit(s[Len(s)])

AllDigitChars(s) == \A i \in 1..Len(s) : IsDigitChar(s[i])

\* The float a text spells, as pandas' numeric parser reads the texts of the
\* inputs (which hold no exponent and no blank): an optional sign, then
\* "inf", or digits with an optional fraction; anything else is not a
\* number (NaN under errors='coerce').
ParseNumber(s) ==
    LET neg  == s # <<>> /\ s[1] = "-"
        body == IF s # <<>> /\ s[1] \in {"-", "+"} THEN Tail(s) ELSE s
        sg   == IF neg THEN -1 ELSE 1
        dots == {i \in 1..Len(body) : body[i] = "."}
    IN  IF body = <<"i", "n", "f">> THEN Inf(sg)
        ELSE IF body = <<>> THEN NaN
        ELSE IF dots = {} THEN
            IF AllDigitChars(body) THEN Normalize(sg * DigitsValue(body), 0) ELSE NaN
        ELSE IF Cardinality(dots) > 1 THEN NaN
        ELSE LET p    == CHOOSE i \in dots : TRUE
                 ip   == SubSeq(body, 1, p - 1)
                 fp   == SubSeq(body, p + 1, Len(body))
             IN  IF Len(ip) + Len(fp) > 0 /\ AllDigitChars(ip) /\ AllDigitChars(fp)
                 THEN Normalize(sg * DigitsValue(ip \o fp), -Len(fp))
                 ELSE NaN

\* ----------------------------------------------------------------- inputs
T_abc   == <<"a", "b", "c">>
T_1c5   == <<"1", ",", "5">>
T_12_5  == <<"1", "2", ".", "5">>
T_inf   == <<"i", "n", "f">>
T_neg7  == <<"-", "7">>
T_Other == <<"O", "t", "h", "e", "r">>

\* The Debit and Credit cells of one row, as the spreadsheet holds them: a
\* number, an empty cell (NaN) or a text.
AmountRows ==
    { [Debit |-> Num(1, 2),       Credit |-> Zero],          \* 100, 0
      [Debit |-> Zero,            Credit |-> Num(-5, 1)],    \* 0, -50
      [Debit |-> Text(T_abc),     Credit |-> Num(25, 0)],    \* "abc", 25
      [Debit |-> Num(123, -2),    Credit |-> NaN],           \* 1.23, empty
      [Debit |-> NaN,             Credit |-> Num(123, -1)],  \* empty, 12.3
      [Debit |-> Num(123, 0),     Credit |-> Num(-5, -5)],   \* 123, -0.00005
      [Debit |-> Num(-4, 1),      Credit |-> Zero],          \* -40, 0
      [Debit |-> Zero,            Credit |-> Zero],          \* 0, 0
      [Debit |-> Text(T_12_5),    Credit |-> Num(-3, 16)],   \* "12.5", -3e16
      [Debit |-> Text(T_inf),     Credit |-> Zero],          \* "inf", 0
      [Debit |-> Num(7, -3),      Credit |-> Text(T_1c5)],   \* 0.007, "1,5"
      [Debit |-> Num(9, 0),       Credit |-> Num(-999, -2)], \* 9, -9.99
      [Debit |-> Text(T_neg7),    Credit |-> Num(25, -1)]    \* "-7", 2.5
    }

\* A date cell: a timestamp, or a text that is no date.
Ts(y, mo, d) == [k |-> "ts", y |-> y, mo |-> mo, d |-> d]
BadDate      == [k |-> "bad", y |-> 0, mo |-> 0, d |-> 0]

\* Row i of every input table falls in one of three months.
RowDate(i) == Ts(2024, 1 + (i % 3), 5)

\* Sources of the rows of an amount table: " A", "A " and "B" in turn.
AmountSource(i) ==
    IF i % 3 = 1 THEN <<" ", "A">> ELSE IF i % 3 = 2 THEN <<"A", " ">> ELSE <<"B">>

\* Amount tables: up to MaxAmountRows rows of AmountRows; under the date
\* pattern "bad" the last row's EffectiveDate is a text that is no date.
InputAmountTables ==
    { [i \in 1..Len(rs) |->
          [Debit |-> rs[i].Debit, Credit |-> rs[i].Credit,
           Source |-> AmountSource(i),
           EffectiveDate |-> IF dates = "bad" /\ i = Len(rs) THEN BadDate ELSE RowDate(i)]]
      : rs \in UNION {[1..n -> AmountRows] : n \in 0..MaxAmountRows},
        dates \in {"ok", "bad"} }

\* Source j of a source table; the source of rank `other` is named "Other",
\* and every even source carries a trailing blank in the sheet.
SourceName(j, other) ==
    (IF j = other THEN T_Other ELSE <<"S">> \o DigitsToChars(Digits(j)))
    \o (IF j % 2 = 0 THEN <<" ">> ELSE <<>>)

\* Rows of source j: one each ("flat"), or more for the earlier sources.
SourceRowCount(j, nsrc, profile) ==
    IF profile = "flat" THEN 1 ELSE 1 + ((nsrc - j) \div 4)

RECURSIVE SourcePass(_, _, _, _)
\* The sources with at least p rows, from source j down to source 1.
SourcePass(j, p, nsrc, profile) ==
    IF j = 0 THEN <<>>
    ELSE (IF SourceRowCount(j, nsrc, profile) >= p THEN <<j>> ELSE <<>>)
         \o SourcePass(j - 1, p, nsrc, profile)

RECURSIVE SourceOrder(_, _, _)
\* The source of every row of a source table, in sheet order.
SourceOrder(p, nsrc, profile) ==
    LET pass == SourcePass(nsrc, p, nsrc, profile)
    IN  IF pass = <<>> THEN <<>> ELSE pass \o SourceOrder(p + 1, nsrc, profile)

\* Source tables: TopN-1 .. MaxSources sources with whole-number amounts.
InputSourceTables ==
    { LET order == SourceOrder(1, nsrc, profile)
      IN  [i \in 1..Len(order) |->
              [Debit  |-> IF i % 2 = 1 THEN Num(1, 2) ELSE Zero,
               Credit |-> IF i % 2 = 1 THEN Zero ELSE Num(-5, 1),
               Source |-> SourceName(order[i], other),
               EffectiveDate |-> RowDate(i)]]
      : nsrc \in (TopN - 1)..MaxSources, other \in 0..MaxSources,
        profile \in {"flat", "steps"} }

\* What the input path holds: no readable workbook, or a table.
Unreadable == [readable |-> FALSE, rows |-> <<>>]
InputFiles ==
    {Unreadable}
    \cup {[readable |-> TRUE, rows |-> t] : t \in InputAmountTables \cup InputSourceTables}

\* ------------------------------------------------------------------ state
VARIABLES
    pc,              \* the statement analyze_data() is about to run
    file,            \* the content of 'je_samples (1).xlsx'
    dir_exists,      \* whether analysis_output/ exists
    reads,           \* number of pd.read_excel calls made
    df,              \* the entry table
    dtypes,          \* dtype of the Debit and Credit columns
    row_count,
    source_counts,   \* df['Source'].value_counts()
    all_amounts,     \* the Benford sample
    amounts_dtype,
    first_digits,
    total_count,
    benford_df,
    plot_data,       \* the series the pie chart draws
    summary,         \* what summary.txt holds
    monthly_counts,
    written,         \* the output files written by this run, in order
    exit_status,     \* -1 while the process runs
    steps            \* the stages that have run, in order

vars == <<pc, file, dir_exists, reads, df, dtypes, row_count, source_counts,
          all_amounts, amounts_dtype, first_digits, total_count, benford_df,
          plot_data, summary, monthly_counts, written, exit_status, steps>>

NoSummary ==
    [written |-> FALSE, rows |-> 0, sources |-> <<>>,
     benford_kind |-> "none", benford |-> <<>>]

Init ==
    /\ pc = "mkdir"
    /\ file \in InputFiles
    /\ dir_exists \in BOOLEAN
    /\ reads = 0
    /\ df = <<>>
    /\ dtypes = [Debit |-> "object", Credit |-> "object"]
    /\ row_count = 0
    /\ source_counts = <<>>
    /\ all_amounts = <<>>
    /\ amounts_dtype = "float64"
    /\ first_digits = <<>>
    /\ total_count = 0
    /\ benford_df = <<>>
    /\ plot_data = <<>>
    /\ summary = NoSummary
    /\ monthly_counts = <<>>
    /\ written = <<>>
    /\ exit_status = -1
    /\ steps = <<>>

\* -------------------------------------------------------- pipeline helpers
Range(f) == {f[i] : i \in DOMAIN f}

RECURSIVE Sum(_)
\* Series.sum() of a series of [label, count] entries.
Sum(entries) ==
    IF entries = <<>> THEN 0 ELSE entries[1].count + Sum(Tail(entries))

\* pd.to_numeric(errors='coerce'), element-wise: a text becomes the number
\* it spells, or NaN.
ToNumeric(cell) == IF cell.k = "str" THEN ParseNumber(cell.s) ELSE cell

\* Mutant of FillNa: the fill is forgotten.
FillNaForgotten(v) == v

\* Mutant of FillNa: missing values are filled with the sentinel -1.
FillNaMinusOne(v) == IF v.k = "nan" THEN Num(-1, 0) ELSE v

\* fillna(0), element-wise.
FillNa(v) == IF v.k = "nan" THEN Zero ELSE v

\* The dtype pd.to_numeric gives a column: int64 when every cell is a whole
\* number, float64 as soon as one is fractional, missing or infinite.
NumericDtype(col) ==
    IF \A i \in DOMAIN col : IsWhole(col[i]) THEN "int64" ELSE "float64"

\* Lines 26-31 on one row.
CleanRow(row) ==
    [row EXCEPT !.Debit  = FillNa(ToNumeric(row.Debit)),
                !.Credit = FillNa(ToNumeric(row.Credit))]

RECURSIVE FirstAppearance(_)
\* The distinct values of a sequence, in order of first appearance.
FirstAppearance(seq) ==
    IF seq = <<>> THEN <<>>
    ELSE LET front == FirstAppearance(SubSeq(seq, 1, Len(seq) - 1))
             last  == seq[Len(seq)]
         IN  IF last \in Range(front) THEN front ELSE Append(front, last)

RECURSIVE SortDescending(_)
\* Entries by descending count; equal counts keep their order.
SortDescending(entries) ==
    IF entries = <<>> THEN <<>>
    ELSE LET mx == CHOOSE c \in {entries[i].count : i \in DOMAIN entries} :
                       \A i \in DOMAIN entries : entries[i].count <= c
             at == CHOOSE i \in DOMAIN entries :
                       /\ entries[i].count = mx
                       /\ \A j \in 1..(i - 1) : entries[j].count # mx
         IN  <<entries[at]>>
             \o SortDescending(SubSeq(entries, 1, at - 1)
                               \o SubSeq(entries, at + 1, Len(entries)))

\* Series.value_counts(): one [label, count] entry per distinct value, by
\* descending count; pandas counts the labels in order of first appearance
\* and its sort keeps that order among equal counts.
ValueCounts(col) ==
    LET labels == FirstAppearance(col)
    IN  SortDescending([i \in 1..Len(labels) |->
            [label |-> labels[i],
             count |-> Cardinality({j \in DOMAIN col : col[j] = labels[i]})]])

\* series[label] = value: overwrites the entry of that label, or appends one.
SetItem(series, label, value) ==
    IF \E i \in DOMAIN series : series[i].label = label
    THEN [i \in DOMAIN series |->
             IF series[i].label = label THEN [series[i] EXCEPT !.count = value]
             ELSE series[i]]
    ELSE Append(series, [label |-> label, count |-> value])

\* Mutant of BenfordSample: the credits are pooled without abs().
BenfordSampleNoAbs(table) ==
    LET debits  == [i \in DOMAIN table |-> table[i].Debit]
        credits == [i \in DOMAIN table |-> table[i].Credit]
    IN  SelectSeq(debits \o credits, IsPositive)

\* Lines 58-59: pd.concat([Debit, Credit.abs()]) filtered by > 0.
BenfordSample(table) ==
    LET debits  == [i \in DOMAIN table |-> table[i].Debit]
        credits == [i \in DOMAIN table |-> AbsValue(table[i].Credit)]
    IN  SelectSeq(debits \o credits, IsPositive)

\* Mutant of FirstDigit: lstrip('0') leaves the decimal point in place.
FirstDigitKeepsPoint(v, dtype) ==
    LET t == LStrip(AsTypeStr(v, dtype), {"0"})
    IN  IF t # <<>> /\ IsDigitChar(t[1]) THEN CharToDigit(t[1]) ELSE -1

\* Line 63 on one amount: astype(str).str.lstrip('0.').str[0].astype(int).
\* -1 stands for the ValueError int() raises on a non-digit or on the
\* missing value str[0] gives for an empty string.
FirstDigit(v, dtype) ==
    LET t == LStrip(AsTypeStr(v, dtype), {"0", "."})
    IN  IF t # <<>> /\ IsDigitChar(t[1]) THEN CharToDigit(t[1]) ELSE -1

\* Mutant of ObservedFreq: divides by the number of distinct digits.
ObservedFreqByDistinct(digits) ==
    [d \in Range(digits) |->
        <<Cardinality({i \in DOMAIN digits : digits[i] = d}),
          Cardinality(Range(digits))>>]

\* Lines 66-68: first_digits.value_counts().sort_index() / total_count, the
\* frequency of digit d kept as the pair <<count, total_count>>.
ObservedFreq(digits) ==
    [d \in Range(digits) |->
        <<Cardinality({i \in DOMAIN digits : digits[i] = d}), Len(digits)>>]

\* Lines 76-79: the Observed column of benford_df, indexed by the union of
\* the observed digits and 1..9, a digit never observed filled with 0.
BenfordTable(observed) ==
    [d \in (DOMAIN observed) \cup (1..9) |->
        IF d \in DOMAIN observed THEN observed[d] ELSE <<0, 1>>]

\* Mutant of PreparePie: the "Other" slice is set on source_counts itself.
PreparePieInPlace(counts) ==
    IF Len(counts) > TopN
    THEN LET top_sources == SubSeq(counts, 1, TopN)
             other_count == Sum(SubSeq(counts, TopN + 1, Len(counts)))
             changed     == SetItem(top_sources, T_Other, other_count)
         IN  [plot_data |-> changed, source_counts |-> changed]
    ELSE [plot_data |-> counts, source_counts |-> counts]

\* Lines 97-104: the pie chart's series, and source_counts afterwards (the
\* "Other" slice is set on a copy of the top sources).
PreparePie(counts) ==
    IF Len(counts) > TopN
    THEN LET top_sources == SubSeq(counts, 1, TopN)
             other_count == Sum(SubSeq(counts, TopN + 1, Len(counts)))
         IN  [plot_data     |-> SetItem(top_sources, T_Other, other_count),
              source_counts |-> counts]
    ELSE [plot_data |-> counts, source_counts |-> counts]

\* Line 153: df.groupby(EffectiveDate.dt.to_period('M')).size()
MonthlyCounts(table) ==
    [ym \in {<<table[i].EffectiveDate.y, table[i].EffectiveDate.mo>> : i \in DOMAIN table} |->
        Cardinality({i \in DOMAIN table :
            <<table[i].EffectiveDate.y, table[i].EffectiveDate.mo>> = ym})]

\* The order in which analyze_data() saves its outputs (lines 89, 111, 117, 163).
OutputOrder ==
    <<"benford_law.png", "source_distribution_pie.png", "summary.txt",
      "entries_over_time.png">>

\* ------------------------------------------------------------------ steps
\* An uncaught exception: the interpreter prints a traceback and exits 1.
Crash(step) ==
    /\ pc' = "crashed"
    /\ exit_status' = 1
    /\ steps' = Append(steps, step)

Goto(next, step) ==
    /\ pc' = next
    /\ steps' = Append(steps, step)
    /\ UNCHANGED exit_status

\* Lines 13-15: os.makedirs(output_dir) unless it exists.
MakeDir ==
    /\ pc = "mkdir"
    /\ dir_exists' = TRUE
    /\ Goto("read", "mkdir")
    /\ UNCHANGED <<file, reads, df, dtypes, row_count, source_counts, all_amounts,
                   amounts_dtype, first_digits, total_count, benford_df, plot_data,
                   summary, monthly_counts, written>>

\* Mutant of ReadExcel: the exception is swallowed and the run goes on
\* with an empty table.
ReadExcelSwallowsError ==
    /\ pc = "read"
    /\ reads' = reads + 1
    /\ df' = file.rows
    /\ Goto("clean_numeric", "read")
    /\ UNCHANGED <<file, dir_exists, dtypes, row_count, source_counts, all_amounts,
                   amounts_dtype, first_digits, total_count, benford_df, plot_data,
                   summary, monthly_counts, written>>

\* Lines 17-22: pd.read_excel; any exception is reported and ends the
\* process with sys.exit(1).
ReadExcel ==
    /\ pc = "read"
    /\ reads' = reads + 1
    /\ \/ /\ file.readable
          /\ df' = file.rows
          /\ Goto("clean_numeric", "read")
       \/ /\ ~file.readable
          /\ df' = df
          /\ pc' = "exited"
          /\ exit_status' = 1
          /\ steps' = Append(steps, "read")
    /\ UNCHANGED <<file, dir_exists, dtypes, row_count, source_counts, all_amounts,
                   amounts_dtype, first_digits, total_count, benford_df, plot_data,
                   summary, monthly_counts, written>>

\* Lines 24-31: to_numeric(errors='coerce') then fillna(0) on Debit and Credit.
CleanNumeric ==
    /\ pc = "clean_numeric"
    /\ df' = [i \in DOMAIN df |-> CleanRow(df[i])]
    /\ dtypes' = [Debit  |-> NumericDtype([i \in DOMAIN df |-> ToNumeric(df[i].Debit)]),
                  Credit |-> NumericDtype([i \in DOMAIN df |-> ToNumeric(df[i].Credit)])]
    /\ Goto("clean_strings", "clean_numeric")
    /\ UNCHANGED <<file, dir_exists, reads, row_count, source_counts, all_amounts,
                   amounts_dtype, first_digits, total_count, benford_df, plot_data,
                   summary, monthly_counts, written>>

\* Lines 33-36: every object column is converted to text and stripped.
\* Debit and Credit are numeric by now; a date column holding a text is an
\* object column too, and its timestamps go to text here and back to the
\* same timestamps at line 39.
CleanStrings ==
    /\ pc = "clean_strings"
    /\ df' = [i \in DOMAIN df |-> [df[i] EXCEPT !.Source = Strip(df[i].Source)]]
    /\ Goto("parse_dates", "clean_strings")
    /\ UNCHANGED <<file, dir_exists, reads, dtypes, row_count, source_counts,
                   all_amounts, amounts_dtype, first_digits, total_count, benford_df,
                   plot_data, summary, monthly_counts, written>>

\* Lines 38-40: pd.to_datetime raises on a text that is no date.
ParseDates ==
    /\ pc = "parse_dates"
    /\ \/ /\ \A i \in DOMAIN df : df[i].EffectiveDate.k = "ts"
          /\ Goto("aggregate", "parse_dates")
       \/ /\ \E i \in DOMAIN df : df[i].EffectiveDate.k # "ts"
          /\ Crash("parse_dates")
    /\ UNCHANGED <<file, dir_exists, reads, df, dtypes, row_count, source_counts,
                   all_amounts, amounts_dtype, first_digits, total_count, benford_df,
                   plot_data, summary, monthly_counts, written>>

\* Lines 42-53: row count and the source frequency table.
Aggregate ==
    /\ pc = "aggregate"
    /\ row_count' = Len(df)
    /\ source_counts' = ValueCounts([i \in DOMAIN df |-> df[i].Source])
    /\ Goto("benford_sample", "aggregate")
    /\ UNCHANGED <<file, dir_exists, reads, df, dtypes, all_amounts, amounts_dtype,
                   first_digits, total_count, benford_df, plot_data, summary,
                   monthly_counts, written>>

\* Lines 57-59: the pooled sample; concat of two int64 columns is int64.
BuildSample ==
    /\ pc = "benford_sample"
    /\ all_amounts' = BenfordSample(df)
    /\ amounts_dtype' =
           IF dtypes.Debit = "int64" /\ dtypes.Credit = "int64" THEN "int64" ELSE "float64"
    /\ Goto("first_digits", "benford_sample")
    /\ UNCHANGED <<file, dir_exists, reads, df, dtypes, row_count, source_counts,
                   first_digits, total_count, benford_df, plot_data, summary,
                   monthly_counts, written>>

\* Lines 61-63: the first digit of every amount; astype(int) raises when
\* one of the first characters is no digit.
ExtractDigits ==
    /\ pc = "first_digits"
    /\ LET ds == [i \in DOMAIN all_amounts |-> FirstDigit(all_amounts[i], amounts_dtype)]
       IN  \/ /\ \A i \in DOMAIN ds : ds[i] # -1
              /\ first_digits' = ds
              /\ Goto("benford_freq", "first_digits")
           \/ /\ \E i \in DOMAIN ds : ds[i] = -1
              /\ first_digits' = first_digits
              /\ Crash("first_digits")
    /\ UNCHANGED <<file, dir_exists, reads, df, dtypes, row_count, source_counts,
                   all_amounts, amounts_dtype, total_count, benford_df, plot_data,
                   summary, monthly_counts, written>>

\* Lines 65-79: observed frequencies and the comparison table.
BenfordFreq ==
    /\ pc = "benford_freq"
    /\ total_count' = Len(first_digits)
    /\ benford_df' = BenfordTable(ObservedFreq(first_digits))
    /\ Goto("plot_benford", "benford_freq")
    /\ UNCHANGED <<file, dir_exists, reads, df, dtypes, row_count, source_counts,
                   all_amounts, amounts_dtype, first_digits, plot_data, summary,
                   monthly_counts, written>>

\* Mutant of PlotBenford: the figure is built but never saved.
PlotBenfordNotSaved ==
    /\ pc = "plot_benford"
    /\ Goto("plot_pie", "plot_benford")
    /\ UNCHANGED <<file, dir_exists, reads, df, dtypes, row_count, source_counts,
                   all_amounts, amounts_dtype, first_digits, total_count, benford_df,
                   plot_data, summary, monthly_counts, written>>

\* Lines 81-91: the Benford bar chart.
PlotBenford ==
    /\ pc = "plot_benford"
    /\ written' = Append(written, "benford_law.png")
    /\ Goto("plot_pie", "plot_benford")
    /\ UNCHANGED <<file, dir_exists, reads, df, dtypes, row_count, source_counts,
                   all_amounts, amounts_dtype, first_digits, total_count, benford_df,
                   plot_data, summary, monthly_counts>>

\* Lines 93-113: the pie chart. Whether plotting a series without entries
\* raises depends on the plotting library: both outcomes are kept.
PlotPie ==
    /\ pc = "plot_pie"
    /\ plot_data' = PreparePie(source_counts).plot_data
    /\ source_counts' = PreparePie(source_counts).source_counts
    /\ \/ /\ written' = Append(written, "source_distribution_pie.png")
          /\ Goto("write_summary", "plot_pie")
       \/ /\ source_counts = <<>>
          /\ written' = written
          /\ Crash("plot_pie")
    /\ UNCHANGED <<file, dir_exists, reads, df, dtypes, row_count, all_amounts,
                   amounts_dtype, first_digits, total_count, benford_df, summary,
                   monthly_counts>>

\* Lines 115-148: summary.txt; the Benford section is always the digit
\* table read from benford_df for the digits 1..9.
WriteSummary ==
    /\ pc = "write_summary"
    /\ summary' = [written      |-> TRUE,
                   rows         |-> row_count,
                   sources      |-> source_counts,
                   benford_kind |-> "digit_table",
                   benford      |-> [d \in 1..9 |-> benford_df[d]]]
    /\ written' = Append(written, "summary.txt")
    /\ Goto("plot_monthly", "write_summary")
    /\ UNCHANGED <<file, dir_exists, reads, df, dtypes, row_count, source_counts,
                   all_amounts, amounts_dtype, first_digits, total_count, benford_df,
                   plot_data, monthly_counts>>

\* Lines 150-165: entries per month; the function returns and the process
\* ends with status 0. An empty series: as in PlotPie.
PlotMonthly ==
    /\ pc = "plot_monthly"
    /\ monthly_counts' = MonthlyCounts(df)
    /\ \/ /\ written' = Append(written, "entries_over_time.png")
          /\ pc' = "done"
          /\ exit_status' = 0
          /\ steps' = Append(steps, "plot_monthly")
       \/ /\ df = <<>>
          /\ written' = written
          /\ Crash("plot_monthly")
    /\ UNCHANGED <<file, dir_exists, reads, df, dtypes, row_count, source_counts,
                   all_amounts, amounts_dtype, first_digits, total_count, benford_df,
                   plot_data, summary>>

Next ==
    \/ MakeDir
    \/ ReadExcel
    \/ CleanNumeric
    \/ CleanStrings
    \/ ParseDates
    \/ Aggregate
    \/ BuildSample
    \/ ExtractDigits
    \/ BenfordFreq
    \/ PlotBenford
    \/ PlotPie
    \/ WriteSummary
    \/ PlotMonthly

Spec == Init /\ [][Next]_vars

\* ----------------------------------------------------------------- claims
Ran(step) == step \in Range(steps)

\* The stage that ended the run by an uncaught exception, if any.
CrashedAt(step) == pc = "crashed" /\ steps[Len(steps)] = step

\* The texts of the inputs that spell no number.
UnparseableTexts == {T_abc, T_1c5}

\* A cell of the sheet that holds a negative number, as a number or spelled.
RawIsNegative(raw) ==
    \/ IsNegative(raw)
    \/ raw.k = "str" /\ raw.s # <<>> /\ raw.s[1] = "-"
                     /\ IsPositive(ParseNumber(Tail(raw.s)))

\* The first non-zero digit of the decimal representation of m * 10^e.
LeadingDigit(v) == Digits(Abs(v.m))[1]

\* v * 10^k
Scale(v, k) == [v EXCEPT !.e = v.e + k]

Occurrences(seq, x) == Cardinality({i \in DOMAIN seq : seq[i] = x})

RECURSIVE FreqSum(_, _, _)
\* total * (sum of the fractions table[1..d]), every denominator dividing total.
FreqSum(table, total, d) ==
    IF d = 0 THEN 0
    ELSE table[d][1] * (total \div table[d][2]) + FreqSum(table, total, d - 1)

\* C1: if reading the spreadsheet fails, the run reports the error and exits
\* with status 1 after a single read attempt and without a partial load: no
\* cleaning, aggregation or Benford step runs and no output file is written.
C1_ReadFailureExits ==
    (reads > 0 /\ ~file.readable) =>
        /\ pc = "exited"
        /\ exit_status = 1
        /\ reads = 1
        /\ steps = <<"mkdir", "read">>
        /\ df = <<>>
        /\ all_amounts = <<>> /\ source_counts = <<>> /\ benford_df = <<>>
        /\ written = <<>>
        /\ ~summary.written

C1_Witness == pc = "exited" /\ ~file.readable /\ reads = 1

\* C2: after the cleaning pass, in every later state, every row's Debit and
\* Credit is a number and never missing: an empty or unparseable cell has
\* become exactly zero and a cell that was a number is unchanged.
C2_CleanedAmountsNumeric ==
    Ran("clean_numeric") =>
        /\ Len(df) = Len(file.rows)
        /\ \A i \in DOMAIN df : \A col \in {"Debit", "Credit"} :
               LET raw == file.rows[i][col]
                   v   == df[i][col]
               IN  /\ v.k \in {"num", "inf"}
                   /\ (raw.k = "nan" \/ (raw.k = "str" /\ raw.s \in UnparseableTexts))
                          => v = Zero
                   /\ raw.k = "num" => v = raw

C2_Witness ==
    /\ pc = "done"
    /\ \E i \in DOMAIN df : file.rows[i].Debit = Text(T_abc) /\ df[i].Debit = Zero
    /\ \E i \in DOMAIN df : file.rows[i].Credit = NaN /\ df[i].Credit = Zero
                            /\ df[i].Debit = Num(123, -2)

\* C3 as stated: after the cleaning pass every row's Debit is non-negative,
\* whatever the input.
C3_DebitNonNegative ==
    Ran("clean_numeric") => \A i \in DOMAIN df : ~IsNegative(df[i].Debit)

\* C3 as amended: after the cleaning pass a row's Debit is negative exactly
\* when the input cell holds a negative number (as a number or spelled in a
\* text), and a negative numeric cell is left unchanged; every other Debit
\* is non-negative.
C3_DebitNegativeOnlyFromInput ==
    Ran("clean_numeric") =>
        \A i \in DOMAIN df :
            /\ IsNegative(df[i].Debit) <=> RawIsNegative(file.rows[i].Debit)
            /\ IsNegative(file.rows[i].Debit) => df[i].Debit = file.rows[i].Debit

C3_Witness ==
    /\ Ran("clean_numeric")
    /\ \E i \in DOMAIN df : df[i].Debit = Num(-4, 1)
    /\ \E i \in DOMAIN df : file.rows[i].Debit = Text(T_abc) /\ df[i].Debit = Zero

C5_AllZeroNoDataReport ==
    ( /\ pc \in {"done", "crashed"}
      /\ Ran("clean_numeric")
      /\ Len(df) > 0
      /\ \A i \in DOMAIN df : /\ IsZero(df[i].Debit) /\ IsZero(df[i].Credit)
                              /\ df[i].EffectiveDate.k = "ts" )
    => /\ pc = "done"
       /\ all_amounts = <<>>
       /\ summary.benford_kind = "no_data"

\* C6: the Benford sample is exactly the multiset of the strictly positive
\* Debits and of the absolute values of the non-zero Credits: one entry per
\* such cell, nothing else.
C6_SampleIsPooledPositives ==
    Ran("benford_sample") =>
        LET debits  == {i \in DOMAIN df : IsPositive(df[i].Debit)}
            credits == {i \in DOMAIN df : ~IsZero(df[i].Credit)}
            values  == Range(all_amounts)
                       \cup {df[i].Debit : i \in DOMAIN df}
                       \cup {AbsValue(df[i].Credit) : i \in DOMAIN df}
        IN  /\ Len(all_amounts) = Cardinality(debits) + Cardinality(credits)
            /\ \A v \in values :
                   Occurrences(all_amounts, v)
                   = Cardinality({i \in debits : df[i].Debit = v})
                     + Cardinality({i \in credits : AbsValue(df[i].Credit) = v})

C6_Witness ==
    /\ Ran("benford_sample")
    /\ \E i \in DOMAIN df : df[i].Debit = Num(123, 0) /\ df[i].Credit = Num(-5, -5)
    /\ \E i \in DOMAIN df : df[i].Debit = Num(-4, 1)
    /\ Len(all_amounts) = 2

C8_PieSlices ==
    (Ran("plot_pie") /\ ~CrashedAt("plot_pie")) =>
        IF Len(source_counts) > TopN
        THEN /\ Len(plot_data) = TopN + 1
             /\ SubSeq(plot_data, 1, TopN) = SubSeq(source_counts, 1, TopN)
             /\ plot_data[Len(plot_data)] =
                    [label |-> T_Other,
                     count |-> Sum(SubSeq(source_counts, TopN + 1, Len(source_counts)))]
             /\ Sum(plot_data) = row_count
        ELSE plot_data = source_counts

\* C9: nothing is mutated after the cleaning pass: once the dates are parsed
\* no step changes the entry table, once the aggregator has run no step
\* changes the source frequency table, and the source table in summary.txt
\* is the value count of the table's Source column.
C9_NoMutationAfterCleaning ==
    [][ /\ Ran("parse_dates") => df' = df
        /\ Ran("aggregate") => source_counts' = source_counts
        /\ summary'.written =>
               summary'.sources = ValueCounts([i \in DOMAIN df' |-> df'[i].Source])
      ]_vars

C9_Witness ==
    /\ summary.written
    /\ Len(summary.sources) > TopN
    /\ plot_data # source_counts
    /\ pc = "done"

\* C10: the output directory exists before the input is read; the outputs
\* written by a run are always a prefix of benford_law.png,
\* source_distribution_pie.png, summary.txt, entries_over_time.png; a run
\* that ends with status 0 has written all four; so when summary.txt has
\* been written, both earlier charts have been too.
C10_OutputsInOrder ==
    /\ reads > 0 => dir_exists
    /\ Len(written) <= Len(OutputOrder)
    /\ written = SubSeq(OutputOrder, 1, Len(written))
    /\ exit_status = 0 => written = OutputOrder
    /\ "summary.txt" \in Range(written) =>
           {"benford_law.png", "source_distribution_pie.png"} \subseteq Range(written)

C10_Witness ==
    /\ pc = "done"
    /\ exit_status = 0
    /\ written = OutputOrder
    /\ summary.written
====
